---- MODULE Spec2Model ----
(***************************************************************************)
(* Windowed retrieval engine of cisco-secure-access-report.py:             *)
(*   dt_to_epoch_millis, RateLimiter, fetch_activity_window and            *)
(*   fetch_hour_with_minute_fallback, against a model of the remote API.   *)
(*                                                                         *)
(* Time.  A naive local datetime is the number of milliseconds since a     *)
(* base local midnight (the smallest timedelta the code uses is 1 ms).     *)
(* The wall clock read by time.time() is a float; it is modelled in ticks  *)
(* of 1/TicksPerSec second, so sub-second readings exist.  time.mktime is  *)
(* modelled for a zone with a fixed offset (no daylight-saving change      *)
(* inside the hour fetched).                                               *)
(***************************************************************************)
EXTENDS Integers, Sequences, FiniteSets, Bags, TLC

VARIABLES
    \* ---- wall clock and RateLimiter object ----
    now,            \* time.time(), in ticks
    rl,             \* the RateLimiter object (or None)
    admitted,       \* history: return times of check() since window_start was last set
    rlCalls,        \* history: number of check() calls that have returned
    rlWaits,        \* history: number of sleeps of check() and the last one
    rlLate,         \* history: some check() was called >= per_seconds after rlStart
    rlStart,        \* history: window_start set by RateLimiter.__init__
    \* ---- remote API (environment) ----
    server,         \* "any": arbitrary answers; "det": fault-free store of events
    store,          \* det server: event id -> epoch-millisecond timestamp
    served,         \* any server: number of events handed out so far (fresh ids)
    eventsLeft,     \* any server: events it may still hand out
    faultsLeft,     \* any server: faulty answers / connection errors it may still produce
    issued,         \* auth endpoint: number of tokens issued by get_token so far
    utc_shift,      \* seconds added by time.mktime to go from local time to epoch
    \* ---- fetch_activity_window: arguments and locals ----
    pc,             \* "idle" | "loop" | "request" | "response" | "returned" | "raised"
    from_ts, to_ts, limit, offset_ceiling, verbose,
    token, offset, events, need_minute_fallback, consecutive_403, attempt,
    req,            \* params + headers of the page request being issued
    resp,           \* the response received (None before)
    \* ---- fetch_activity_window: history ----
    exitReason,     \* why the paging loop ended
    gets,           \* number of requests.get calls issued
    startToken,     \* token argument of the call
    run403,         \* consecutive 403 answers the server gave for the current page
    ended403,       \* length of the run of 403 answers that the response in resp ended
    total403,       \* 403 answers the server gave during the call
    first403,       \* the request that received the first 403 of the current run, events then
    reauthOK,       \* successful get_token calls since the first 403 of the current run
    lastHandled,    \* the response handled last and the offset/events before it
    connHist,       \* GETs issued for the current page request, those that failed, ticks slept
    received,       \* the "data" batches the server delivered during the call, concatenated
    \* ---- fetch_hour_with_minute_fallback ----
    hpc,            \* "start" | "WHOLE_HOUR" | "MINUTE_FALLBACK" | "DONE" | "none"
    hour_start_dt, hour_ceiling, m, collected, result,
    h_token,        \* the local variable token of fetch_hour_with_minute_fallback
    hourHist,       \* history: events served before the fallback and before the current minute
    windows,        \* history: the (from, to) windows passed to fetch_activity_window
    direct,         \* harness: result of the direct (whole-hour) fetch, kept for comparison
    \* ---- main ----
    mpc,            \* "none" | "category" | "hour" | "fetching" | "done" | "RAISED"
    main_token,     \* the local variable token of main
    categories_to_process_list, dias_to_process,
    cat,            \* position in categories_to_process_list of the category being processed
    idx,            \* position in dias_to_process of the day being processed
    hour,           \* the hour being processed
    excluded,       \* the events that carry an identity label of excluded_identity_names
    saved,          \* history: (category, day, hour) of every call of save_events_function
    written,        \* history: number of events handed to save_events_function
    created,        \* history: number of RateLimiter objects constructed by main
    \* ---- standard output ----
    log             \* the set of records printed since the current window fetch was announced

rlVars   == <<now, rl, admitted, rlCalls, rlWaits, rlLate, rlStart>>
srvVars  == <<server, store, served, eventsLeft, faultsLeft, issued, utc_shift>>
fwArgs   == <<from_ts, to_ts, limit, offset_ceiling, verbose>>
fwLocals == <<token, offset, events, need_minute_fallback, consecutive_403, attempt, req, resp>>
fwHist   == <<exitReason, gets, startToken, run403, ended403, total403, first403, reauthOK, lastHandled,
             connHist, received>>
fhVars   == <<hpc, hour_start_dt, hour_ceiling, m, collected, result, h_token, hourHist,
             windows, direct>>
mainVars == <<mpc, main_token, categories_to_process_list, dias_to_process, cat, idx, hour,
             excluded, saved, written, created>>
vars     == <<rlVars, srvVars, pc, fwArgs, fwLocals, fwHist, fhVars, mainVars, log>>

None == "None"

\* rate_limiter = None
NoLimiter == [none |-> TRUE]

\* an optional integer is a set with at most one element: {} is None
NoInt == {}

(***************************************************************************)
(* Bounds of the model.                                                    *)
(***************************************************************************)
TicksPerSec   == 2    \* clock resolution: ticks per second
MaxNow        == 12   \* the clock of the limiter-only specification stops here (ticks)
MaxMaxReq     == 2    \* max_requests is drawn from 1..MaxMaxReq
MaxPerSec     == 2    \* per_seconds is drawn from 1..MaxPerSec
MaxCalls      == 5    \* check() calls in the limiter-only specification
Limit         == 2    \* page size passed as limit (1000 in main)
OffsetCeiling == 4    \* offset_ceiling passed for the hour window (10000 in main)
WindowEvents  == 5    \* events an arbitrary server hands out during one window fetch
WindowFaults  == 7    \* faulty answers and connection errors during one window fetch
MaxHour       == 1    \* hour_start_dt is hour 0..MaxHour of the base day
HourEvents    == 4    \* events an arbitrary server hands out during one hour fetch
HourFaults    == 1    \* faulty answers and connection errors during one hour fetch
DupEvents     == 4    \* events a repeating server hands out during one window fetch
DupFaults     == 2    \* faulty answers and connection errors of the repeating server
MaxCategories == 2    \* entries of categories_to_process_list
MaxDays       == 1    \* entries of dias_to_process
MainEvents    == 1    \* events an arbitrary server hands out during a run of main
MainFaults    == 1    \* faulty answers and connection errors during a run of main
MainMaxRequests == 3  \* max_requests of main's RateLimiter (18000 in main)
MainPerSeconds  == 2  \* per_seconds of main's RateLimiter (3600 in main)
MaxStored     == 2    \* events held by the deterministic server

Max(a, b) == IF a >= b THEN a ELSE b
Min(a, b) == IF a <= b THEN a ELSE b

\* Python int(): truncation toward zero of the float x/d (d > 0)
PyInt(x, d) == IF x >= 0 THEN x \div d ELSE -((-x) \div d)

(***************************************************************************)
(* Time utilities                                                          *)
(***************************************************************************)
MsPerSecond == 1000

\* datetime.timetuple(): year..second, the sub-second part is not part of it
timetuple(dt) == dt \div MsPerSecond

\* time.mktime(): local broken-down time -> epoch seconds
mktime(tt) == tt + utc_shift

dt_to_epoch_millis(dt) == mktime(timetuple(dt)) * MsPerSecond

\* line 36: strftime("%Y-%m-%d %H:%M:%S") prints the datetime down to the second
fmt_dt(dt) == dt \div MsPerSecond

\* a printed record: its text, the window it names (if any) and the number of
\* events it gives (if any)
Log(msg, window, n) == [msg |-> msg, window |-> window, n |-> n]

(***************************************************************************)
(* RateLimiter                                                             *)
(***************************************************************************)
RateLimiter(max_requests, per_seconds, t) ==
    [max_requests |-> max_requests, per_seconds |-> per_seconds,
     window_start |-> t, count |-> 0]

\* lines 53-55: the window has elapsed
check_reset(l, t) ==
    IF t - l.window_start >= l.per_seconds * TicksPerSec
    THEN [l EXCEPT !.window_start = t, !.count = 0]
    ELSE l

\* line 57, mutated: '>' for '>='
check_must_wait_gt(l) == l.count > l.max_requests

\* line 57
check_must_wait(l) == l.count >= l.max_requests

\* lines 58-60: whole seconds to sleep (l is the limiter after check_reset)
check_wait(l, t) ==
    Max(0, PyInt(l.per_seconds * TicksPerSec - (t - l.window_start), TicksPerSec))

\* time remaining in the current window, in ticks
remaining(l, t) == l.per_seconds * TicksPerSec - (t - l.window_start)

\* line 61: what check() prints when called at time `now`
check_log ==
    IF check_must_wait(check_reset(rl, now))
    THEN {Log("Rate limit atingido", {}, {})}
    ELSE {}

\* RateLimiter.check(), called at time `now`; time.sleep(wait) takes wait seconds
check ==
    LET l1  == check_reset(rl, now)
        w   == check_wait(l1, now)
        t2  == IF check_must_wait(l1) THEN now + w * TicksPerSec ELSE now
        l2  == IF check_must_wait(l1)
               THEN [l1 EXCEPT !.window_start = t2, !.count = 0]
               ELSE l1
        l3  == [l2 EXCEPT !.count = l2.count + 1]
    IN  /\ rl' = l3
        /\ now' = t2
        /\ admitted' = IF l3.window_start # rl.window_start
                       THEN <<t2>> ELSE Append(admitted, t2)
        /\ rlCalls' = rlCalls + 1
        /\ rlWaits' = IF check_must_wait(l1)
                      THEN [n |-> rlWaits.n + 1,
                            last |-> [call |-> rlCalls + 1,
                                      slept |-> w * TicksPerSec,
                                      remaining |-> remaining(l1, now),
                                      at |-> t2]]
                      ELSE rlWaits
        /\ rlLate' = (rlLate \/ now - rlStart >= rl.per_seconds * TicksPerSec)
        /\ rlStart' = rlStart

(***************************************************************************)
(* Idle values of the parts a specification does not exercise              *)
(***************************************************************************)
NoRequest == [from |-> 0, to |-> 0, limit |-> 0, offset |-> 0, token |-> 0]
NoResponse == [status |-> 0, body |-> None, batch |-> <<>>]
NoDirect == [done |-> FALSE, events |-> <<>>]
NoHandled == [resp |-> NoResponse, offset |-> 0, events |-> <<>>, ended403 |-> 0]
NoConn == [tries |-> 0, fails |-> 0, slept |-> 0]

ServerIdle ==
    /\ server = "any" /\ store = <<>> /\ served = 0
    /\ eventsLeft = 0 /\ faultsLeft = 0 /\ issued = 0 /\ utc_shift = 0

WindowIdle ==
    /\ pc = "idle"
    /\ from_ts = 0 /\ to_ts = 0 /\ limit = 0 /\ offset_ceiling = NoInt /\ verbose = FALSE
    /\ log = {}
    /\ token = 0 /\ offset = 0 /\ events = <<>> /\ need_minute_fallback = FALSE
    /\ consecutive_403 = 0 /\ attempt = 0 /\ req = NoRequest /\ resp = NoResponse
    /\ exitReason = None /\ gets = 0 /\ startToken = 0 /\ run403 = 0 /\ ended403 = 0 /\ total403 = 0
    /\ first403 = None /\ reauthOK = 0 /\ lastHandled = NoHandled
    /\ connHist = NoConn /\ received = <<>>

NoHourHist == [hourServed |-> 0, minuteServed |-> 0, minuteAsked |-> FALSE, minutesWithEvents |-> 0]

HourIdle ==
    /\ hpc = "none" /\ hour_start_dt = 0 /\ hour_ceiling = NoInt /\ m = 0 /\ collected = <<>>
    /\ result = <<>> /\ windows = <<>> /\ direct = NoDirect
    /\ h_token = 0 /\ hourHist = NoHourHist

MainIdle ==
    /\ mpc = "none" /\ main_token = 0
    /\ categories_to_process_list = <<>> /\ dias_to_process = <<>>
    /\ cat = 0 /\ idx = 0 /\ hour = 0 /\ excluded = {}
    /\ saved = <<>> /\ written = 0 /\ created = 0

LimiterHistoryInit ==
    /\ admitted = <<>> /\ rlCalls = 0 /\ rlWaits = [n |-> 0, last |-> None]
    /\ rlLate = FALSE
    /\ rlStart = now

(***************************************************************************)
(* SpecRL: one RateLimiter, check() called at arbitrary non-decreasing     *)
(* times.                                                                  *)
(***************************************************************************)
InitRL ==
    /\ now = 0
    /\ \E mr \in 1..MaxMaxReq, ps \in 1..MaxPerSec : rl = RateLimiter(mr, ps, now)
    /\ LimiterHistoryInit
    /\ ServerIdle /\ WindowIdle /\ HourIdle /\ MainIdle

\* time passes between two calls
Tick ==
    /\ now < MaxNow
    /\ now' = now + 1
    /\ UNCHANGED <<rl, admitted, rlCalls, rlWaits, rlLate, rlStart>>
    /\ UNCHANGED <<srvVars, pc, fwArgs, fwLocals, fwHist, fhVars, log>>
    /\ UNCHANGED mainVars

\* a caller invokes rate_limiter.check()
CallCheck ==
    /\ rlCalls < MaxCalls
    /\ check
    /\ log' = log \cup check_log
    /\ UNCHANGED <<srvVars, pc, fwArgs, fwLocals, fwHist, fhVars>>
    /\ UNCHANGED mainVars

NextRL == Tick \/ CallCheck

SpecRL == InitRL /\ [][NextRL]_vars

\* C4: after every return of check() (max_requests >= 1), the number of calls that
\* returned since window_start was last set is count, it lies in 1..max_requests,
\* and each of those returns happened less than per_seconds after window_start.
C4_CountWithinBudget ==
    rlCalls >= 1 =>
        /\ rl.count = Len(admitted)
        /\ 1 <= rl.count /\ rl.count <= rl.max_requests
        /\ \A i \in 1..Len(admitted) :
              /\ rl.window_start <= admitted[i]
              /\ admitted[i] - rl.window_start < rl.per_seconds * TicksPerSec

\* C4 witness: the budget was used up, check() slept and reset the window, and the
\* new window is full again.
C4_Witness ==
    /\ rl.max_requests = 2 /\ rl.count = 2 /\ rlWaits.n >= 1
    /\ Len(admitted) = 2 /\ admitted[2] > admitted[1]

\* C5 (as claimed): max_requests + 1 calls, all made less than per_seconds after
\* the initial window_start, cause exactly one sleep, on the last call, whose
\* duration is the time remaining in the window; afterwards count = 1 and the
\* window has been reset.
C5_WaitIsRemainingTime ==
    (rlCalls = rl.max_requests + 1 /\ ~rlLate)
    => /\ rlWaits.n = 1
       /\ rlWaits.last.call = rl.max_requests + 1
       /\ rlWaits.last.slept = rlWaits.last.remaining
       /\ rl.count = 1
       /\ rl.window_start = rlWaits.last.at

(***************************************************************************)
(* Remote API (environment)                                                *)
(***************************************************************************)
\* a 200 answer whose body is {"data": batch}
Data(batch) == [status |-> 200, body |-> "data", batch |-> batch]

\* the faulty answers: 200 with an undecodable body, 200 with a JSON body that is
\* not an object, and the statuses the code tells apart
Faulty ==
    { [status |-> 200, body |-> "badjson",   batch |-> <<>>],
      [status |-> 200, body |-> "nonobject", batch |-> <<>>],
      [status |-> 403, body |-> "text", batch |-> <<>>],
      [status |-> 400, body |-> "text", batch |-> <<>>],
      [status |-> 404, body |-> "text", batch |-> <<>>],
      [status |-> 500, body |-> "text", batch |-> <<>>] }

\* fresh events k+1 .. k+n
Fresh(k, n) == [i \in 1..n |-> k + i]

\* the answers an arbitrary server may give to request r
AnyAnswers(r) ==
    { Data(Fresh(served, n)) : n \in 0..Min(r.limit, eventsLeft) }
    \cup (IF faultsLeft > 0 THEN Faulty ELSE {})

\* det server: ids of the stored events with from <= timestamp <= to
Matching(r) == { e \in DOMAIN store : r.from <= store[e] /\ store[e] <= r.to }

\* det server: the matching events in (timestamp, id) order
Ordered(S) ==
    CHOOSE q \in [1..Cardinality(S) -> S] :
        \A i, j \in 1..Cardinality(S) :
            i < j => \/ store[q[i]] < store[q[j]]
                     \/ (store[q[i]] = store[q[j]] /\ q[i] < q[j])

\* det server: page offset/limit of the matching events
DetAnswer(r) ==
    LET all == Ordered(Matching(r))
        hi  == Min(r.offset + r.limit, Len(all))
    IN  Data(IF r.offset < Len(all) THEN SubSeq(all, r.offset + 1, hi) ELSE <<>>)

\* dup server: an arbitrary server that may also send again the first events of
\* the call
DupAnswers(r) ==
    AnyAnswers(r)
    \cup { Data(SubSeq(received, 1, n)) : n \in 1..Min(Min(r.limit, eventsLeft), Len(received)) }

Answers(r) ==
    IF server = "det" THEN {DetAnswer(r)}
    ELSE IF server = "dup" THEN DupAnswers(r)
    ELSE AnyAnswers(r)

(***************************************************************************)
(* fetch_activity_window                                                   *)
(***************************************************************************)
max_403_attempts == 5

max_retries_conn == 5

ReauthFailSleep == 5

RECURSIVE Pow2(_)
Pow2(n) == IF n = 0 THEN 1 ELSE 2 * Pow2(n - 1)

\* lines 203-209: entry of fetch_activity_window(token, ..., from_ts, to_ts,
\* limit, offset_ceiling, rate_limiter = rl)
fetch_activity_window(tok, f, t, lim, ceil, verb) ==
    /\ pc' = "loop"
    /\ from_ts' = f /\ to_ts' = t /\ limit' = lim /\ offset_ceiling' = ceil
    /\ verbose' = verb
    /\ token' = tok /\ offset' = 0 /\ events' = <<>>
    /\ need_minute_fallback' = FALSE /\ consecutive_403' = 0
    /\ attempt' = 0 /\ req' = NoRequest /\ resp' = NoResponse
    /\ exitReason' = None /\ startToken' = tok /\ run403' = 0 /\ ended403' = 0 /\ total403' = 0
    /\ first403' = None /\ reauthOK' = 0 /\ lastHandled' = NoHandled
    /\ connHist' = NoConn /\ received' = <<>>

\* line 212, mutated: '>' for '>='
ceiling_reached_gt == \E c \in offset_ceiling : offset > c

\* line 212
ceiling_reached == \E c \in offset_ceiling : offset >= c

\* lines 211-230: top of the paging loop
LoopTop ==
    /\ pc = "loop"
    /\ IF ceiling_reached
       THEN /\ need_minute_fallback' = TRUE
            /\ pc' = "returned"
            /\ exitReason' = "ceiling"
            /\ log' = IF verbose
                      THEN log \cup {Log("Offset >= ceiling. Ativando fallback", {}, {})}
                      ELSE log
            /\ UNCHANGED <<rlVars, req, resp, attempt, connHist>>
       ELSE /\ IF rl # NoLimiter
               THEN check /\ log' = log \cup check_log
               ELSE UNCHANGED <<rlVars, log>>
            /\ req' = [from |-> from_ts, to |-> to_ts, limit |-> limit,
                       offset |-> offset, token |-> token]
            /\ resp' = NoResponse
            /\ attempt' = 0
            /\ pc' = "request"
            /\ connHist' = NoConn
            /\ UNCHANGED <<need_minute_fallback, exitReason>>
    /\ UNCHANGED <<srvVars, fwArgs, token, offset, events, consecutive_403>>
    /\ UNCHANGED <<gets, startToken, run403, ended403, total403, first403, reauthOK, lastHandled>>
    /\ UNCHANGED received
    /\ UNCHANGED fhVars
    /\ UNCHANGED mainVars

\* lines 233-236: requests.get answers
GetResponse ==
    /\ pc = "request"
    /\ \E r \in Answers(req) :
          /\ resp' = r
          /\ served' = served + Len(r.batch)
          /\ eventsLeft' = IF server = "det" THEN eventsLeft ELSE eventsLeft - Len(r.batch)
          /\ faultsLeft' = IF r \in Faulty THEN faultsLeft - 1 ELSE faultsLeft
          /\ run403' = IF r.status = 403 THEN run403 + 1 ELSE 0
          /\ ended403' = IF r.status = 403 THEN 0 ELSE run403
          /\ total403' = IF r.status = 403 THEN total403 + 1 ELSE total403
          /\ first403' = IF r.status = 403 /\ run403 = 0
                         THEN [req |-> req, events |-> events]
                         ELSE first403
          /\ reauthOK' = IF r.status = 403 /\ run403 = 0 THEN 0 ELSE reauthOK
          /\ received' = received \o r.batch
    /\ gets' = gets + 1
    /\ connHist' = [connHist EXCEPT !.tries = @ + 1]
    /\ pc' = "response"
    /\ UNCHANGED <<rlVars, server, store, issued, utc_shift, fwArgs>>
    /\ UNCHANGED <<token, offset, events, need_minute_fallback, consecutive_403, attempt, req>>
    /\ UNCHANGED <<exitReason, startToken, lastHandled>>
    /\ UNCHANGED <<fhVars, log>>
    /\ UNCHANGED mainVars

\* line 240: seconds to wait after failed attempt number a
backoff(a) == Pow2(a)

\* line 233, mutated: one attempt more
retries_exhausted_gt(n) == n > max_retries_conn

\* line 233: range(max_retries_conn) is used up after n attempts
retries_exhausted(n) == n >= max_retries_conn

\* lines 233-245: requests.get raises ConnectionError / ChunkedEncodingError /
\* ReadTimeout; back off 2^attempt seconds; give up after max_retries_conn attempts
GetConnError ==
    /\ pc = "request"
    /\ faultsLeft > 0
    /\ faultsLeft' = faultsLeft - 1
    /\ gets' = gets + 1
    /\ now' = now + backoff(attempt) * TicksPerSec
    /\ attempt' = attempt + 1
    /\ connHist' = [tries |-> connHist.tries + 1, fails |-> connHist.fails + 1,
                    slept |-> connHist.slept + (now' - now)]
    /\ UNCHANGED received
    /\ IF retries_exhausted(attempt + 1)
       THEN /\ pc' = "returned" /\ exitReason' = "conn"
            /\ log' = log \cup {Log("Erro de conexao. Tentando novamente", {}, {}),
                                 Log("Falhas de conexao repetidas. Abortando este intervalo", {}, {})}
       ELSE /\ pc' = "request" /\ exitReason' = exitReason
            /\ log' = log \cup {Log("Erro de conexao. Tentando novamente", {}, {})}
    /\ UNCHANGED <<rl, admitted, rlCalls, rlWaits, rlLate, rlStart>>
    /\ UNCHANGED <<server, store, served, eventsLeft, issued, utc_shift, fwArgs>>
    /\ UNCHANGED <<token, offset, events, need_minute_fallback, consecutive_403, req, resp>>
    /\ UNCHANGED <<startToken, run403, ended403, total403, first403, reauthOK, lastHandled>>
    /\ UNCHANGED fhVars
    /\ UNCHANGED mainVars

\* line 258, mutated: events already held are left out
extend_unique(list, batch) ==
    list \o SelectSeq(batch, LAMBDA e : \A i \in DOMAIN list : list[i] /= e)

\* line 258: events.extend(batch)
extend(list, batch) == list \o batch

\* line 284, mutated: 500 also asks for the fallback
asks_fallback_500(status) == status \in {400, 404, 500}

\* line 284
asks_fallback(status) == status \in {400, 404}

\* line 265, mutated: '<=' for '<'
last_page_le(batch) == Len(batch) <= limit

\* line 265
last_page(batch) == Len(batch) < limit

\* lines 270-282, mutated: the retry moves on to the next page
retry_offset_skip == offset + limit

\* line 279, mutated: '>' for '>='
persistent_403_gt(n) == n > max_403_attempts

\* line 279
persistent_403(n) == n >= max_403_attempts

\* lines 270-282: a 403 retry leaves the offset alone
retry_offset == offset

\* line 264, mutated: the counter survives a successful page
reset_403_kept == consecutive_403

\* line 264: consecutive_403 = 0 after a non-empty page
reset_403 == 0

\* lines 247-290: the response is handled
HandleResponse ==
    /\ pc = "response"
    /\ lastHandled' = [resp |-> resp, offset |-> offset, events |-> events,
                       ended403 |-> ended403]
    /\ IF resp.status = 200 THEN
          /\ IF resp.body = "badjson" THEN
                /\ pc' = "returned" /\ exitReason' = "decode"
                /\ log' = log \cup {Log("Erro ao decodificar JSON", {}, {})}
                /\ UNCHANGED <<events, offset, consecutive_403>>
             ELSE IF resp.body = "nonobject" THEN
                \* payload.get raises AttributeError, which nothing catches
                /\ pc' = "raised" /\ exitReason' = "exception"
                /\ UNCHANGED <<events, offset, consecutive_403, log>>
             ELSE IF resp.batch = <<>> THEN
                /\ pc' = "returned" /\ exitReason' = "empty"
                /\ UNCHANGED <<events, offset, consecutive_403, log>>
             ELSE
                /\ events' = extend(events, resp.batch)
                /\ offset' = offset + Len(resp.batch)
                /\ consecutive_403' = reset_403
                /\ log' = IF verbose
                          THEN log \cup {Log("eventos (offset agora)", {}, {Len(resp.batch)})}
                          ELSE log
                /\ IF last_page(resp.batch)
                   THEN pc' = "returned" /\ exitReason' = "short"
                   ELSE pc' = "loop" /\ exitReason' = exitReason
          /\ UNCHANGED <<token, issued, now, need_minute_fallback>>
       ELSE IF resp.status = 403 THEN
          /\ consecutive_403' = consecutive_403 + 1
          /\ \/ \* get_token returns a new token
                /\ token' = issued + 1 /\ issued' = issued + 1
                /\ reauthOK' = reauthOK + 1
                /\ now' = now
             \/ \* get_token raises: the token stays, sleep 5 s
                /\ UNCHANGED <<token, issued, reauthOK>>
                /\ now' = now + ReauthFailSleep * TicksPerSec
          /\ IF persistent_403(consecutive_403 + 1)
             THEN pc' = "returned" /\ exitReason' = "403"
             ELSE pc' = "loop" /\ exitReason' = exitReason
          /\ log' = log \cup {Log("HTTP 403 detectado. Renovando token", {}, {})}
                        \cup (IF issued' = issued
                              THEN {Log("Erro ao renovar token", {}, {})} ELSE {})
                        \cup (IF persistent_403(consecutive_403 + 1)
                              THEN {Log("403 persistente. Parando este intervalo", {}, {})}
                              ELSE {})
          /\ offset' = retry_offset
          /\ UNCHANGED <<events, need_minute_fallback>>
       ELSE IF asks_fallback(resp.status) THEN
          /\ need_minute_fallback' = TRUE
          /\ pc' = "returned" /\ exitReason' = "http4xx"
          /\ log' = log \cup {Log("HTTP 400/404 - ativando fallback minuto-a-minuto", {}, {})}
          /\ UNCHANGED <<token, issued, now, events, offset, consecutive_403>>
       ELSE
          /\ pc' = "returned" /\ exitReason' = "status"
          /\ log' = log \cup {Log("HTTP status retornado", {}, {})}
          /\ UNCHANGED <<token, issued, now, events, offset, consecutive_403,
                         need_minute_fallback>>
    /\ IF resp.status = 403 THEN TRUE ELSE reauthOK' = reauthOK
    /\ UNCHANGED <<rl, admitted, rlCalls, rlWaits, rlLate, rlStart>>
    /\ UNCHANGED <<server, store, served, eventsLeft, faultsLeft, utc_shift, fwArgs>>
    /\ UNCHANGED <<attempt, req, resp, gets, startToken, run403, ended403, total403, first403>>
    /\ UNCHANGED <<connHist, received>>
    /\ UNCHANGED fhVars
    /\ UNCHANGED mainVars

(***************************************************************************)
(* SpecWindow: one call of fetch_activity_window against an arbitrary      *)
(* server, with and without a rate limiter and a ceiling.                  *)
(***************************************************************************)
InitWindow ==
    /\ now = 0
    /\ rl \in {NoLimiter, RateLimiter(MaxMaxReq, MaxPerSec, now)}
    /\ LimiterHistoryInit
    /\ server = "any" /\ store = <<>> /\ served = 0
    /\ eventsLeft = WindowEvents /\ faultsLeft = WindowFaults
    /\ issued = 0 /\ utc_shift = 0
    /\ WindowIdle /\ HourIdle /\ MainIdle

\* a caller invokes fetch_activity_window for some window
WindowCall ==
    /\ pc = "idle"
    /\ \E call \in {<<NoInt, FALSE>>, <<{OffsetCeiling}, TRUE>>} :
          fetch_activity_window(0, 0, 59000, Limit, call[1], call[2])
    /\ log' = {}
    /\ UNCHANGED <<rlVars, srvVars, gets, fhVars>>
    /\ UNCHANGED mainVars

NextWindow == WindowCall \/ LoopTop \/ GetResponse \/ GetConnError \/ HandleResponse

SpecWindow == InitWindow /\ [][NextWindow]_vars

\* the batch of a 200 answer that decodes to {"data": [...]}
IsData(r) == r.status = 200 /\ r.body = "data"

\* C6 (as claimed): with a rate limiter, every GET issued so far was preceded by
\* its own check(): the GETs never outnumber the check() calls that returned.
C6_EveryGetHasItsCheck ==
    rl # NoLimiter => gets <= rlCalls

\* C7: a non-empty 200 batch shorter than limit ends the call with no further
\* request; after a 200 batch of exactly limit events the next request carries the
\* next offset, and the call ends there only at the offset ceiling (or when that
\* next request gets no answer at all).
C7_PagingStopsOnShortPage ==
    LET h == lastHandled
        n == Len(h.resp.batch)
    IN  /\ (IsData(h.resp) /\ 0 < n /\ n < limit) =>
              /\ pc = "returned"
              /\ ~need_minute_fallback
              /\ req.offset = h.offset
       /\ (IsData(h.resp) /\ n = limit /\ limit > 0) =>
              \/ pc = "loop" /\ offset = h.offset + limit
              \/ pc \in {"request", "response"} /\ req.offset = h.offset + limit
              \/ /\ pc = "returned" /\ need_minute_fallback
                 /\ \E c \in offset_ceiling : offset >= c
                 /\ req.offset = h.offset
              \/ /\ pc = "returned" /\ attempt = max_retries_conn
                 /\ req.offset = h.offset + limit

\* C7 witness: a full page was followed by a short non-empty page, which ended the call.
C7_Witness ==
    /\ pc = "returned" /\ IsData(lastHandled.resp)
    /\ lastHandled.offset = Limit /\ Len(lastHandled.resp.batch) = 1
    /\ Len(events) = Limit + 1

\* C8: need_minute_fallback is returned TRUE exactly when the loop ended at the
\* offset ceiling or on an HTTP 400/404; every other ending returns FALSE; in
\* every case the events returned are all the events received.
C8_FallbackIffCeilingOr4xx ==
    pc = "returned" =>
        /\ need_minute_fallback =
              ( \/ exitReason = "ceiling"
                \/ /\ exitReason \notin {"ceiling", "conn"}
                   /\ lastHandled.resp = resp
                   /\ resp.status \in {400, 404} )
        /\ exitReason = "ceiling" => \E c \in offset_ceiling : offset >= c
        /\ exitReason \in {"ceiling", "conn", "empty", "short", "decode", "403",
                           "http4xx", "status"}
        /\ events = Fresh(0, served)

\* C8 witness: a window abandoned on an unhandled status after a page was received.
C8_Witness ==
    /\ pc = "returned" /\ resp.status = 500 /\ lastHandled.resp = resp
    /\ Len(events) = Limit /\ ~need_minute_fallback

\* C9 (as claimed): when a page got 403 exactly four times in a row and then 200,
\* the fifth request has the same offset/from/to/limit as the first, carries a
\* token obtained by reauthentication after the 403s, not the one the call
\* started with, and the page's events are appended.
C9_RefreshedTokenOnFifthTry ==
    /\ (pc = "response" /\ IsData(resp) /\ ended403 = 4) =>
          /\ req.offset = first403.req.offset
          /\ req.from = first403.req.from /\ req.to = first403.req.to
          /\ req.limit = first403.req.limit
          /\ req.token # startToken
          /\ req.token # first403.req.token
    /\ (IsData(lastHandled.resp) /\ lastHandled.ended403 = 4 /\ pc # "response") =>
          events = lastHandled.events \o lastHandled.resp.batch

\* C9 (amended): ... the fifth request has the same offset/from/to/limit, carries
\* the token of the latest successful reauthentication among the four attempted,
\* or the token of the first try when all four reauthentications failed, and the
\* page's events are appended.
C9_SameOffsetLatestToken ==
    /\ (pc = "response" /\ IsData(resp) /\ ended403 = 4) =>
          /\ gets >= 5
          /\ req.offset = first403.req.offset
          /\ req.from = first403.req.from /\ req.to = first403.req.to
          /\ req.limit = first403.req.limit
          /\ req.token = IF reauthOK > 0 THEN issued ELSE first403.req.token
          /\ reauthOK > 0 => req.token # first403.req.token
    /\ (IsData(lastHandled.resp) /\ lastHandled.ended403 = 4 /\ pc # "response") =>
          events = lastHandled.events \o lastHandled.resp.batch

\* C9 witness: the second page got four 403s, every reauthentication failed, the
\* fifth try was answered with events, and they were appended.
C9_Witness ==
    /\ IsData(lastHandled.resp) /\ lastHandled.ended403 = 4
    /\ lastHandled.offset = Limit /\ Len(lastHandled.resp.batch) > 0
    /\ reauthOK = 0 /\ issued = 0
    /\ Len(events) > Limit

\* C10: five consecutive 403 answers for a page end the call: no sixth request is
\* issued, the events returned are those accumulated before the first of the
\* 403s, and need_minute_fallback is FALSE.
C10_FifthForbiddenAborts ==
    /\ run403 <= 5
    /\ run403 = 5 =>
          /\ pc \in {"response", "returned"}
          /\ req.offset = first403.req.offset
          /\ pc = "returned" =>
                /\ events = first403.events
                /\ ~need_minute_fallback

\* C10 witness: the call returned after five 403s on its second page.
C10_Witness ==
    /\ run403 = 5 /\ pc = "returned" /\ Len(events) = Limit /\ gets = 6

\* seconds waited in all after 0, 1, ..., 5 failed attempts: 1 + 2 + 4 + 8 + 16
TotalWait == <<0, 1, 3, 7, 15, 31>>

\* C11: one page request issues at most 5 GETs; after failed attempt number
\* 0..4 the call waits 1, 2, 4, 8, 16 s (31 s in all at most); a response ends
\* the retries at once; after 5 failures the call returns the events of the
\* earlier pages with need_minute_fallback = FALSE
C11_ConnectionRetries ==
    /\ connHist.fails <= connHist.tries /\ connHist.tries <= 5
    /\ connHist.slept = TotalWait[connHist.fails + 1] * TicksPerSec
    /\ pc = "request" => connHist.tries = connHist.fails /\ connHist.fails < 5
    /\ pc = "response" => connHist.tries = connHist.fails + 1
    /\ connHist.fails = 5 =>
          /\ pc = "returned" /\ exitReason = "conn"
          /\ ~need_minute_fallback /\ events = received

\* the second page fails five times and the first page is returned
C11_Witness ==
    /\ connHist.fails = 5 /\ connHist.slept = 31 * TicksPerSec
    /\ pc = "returned" /\ Len(events) = Limit

\* C22: the 403 budget counts consecutive 403s only. A non-empty 200 batch
\* resets the counter to 0, between responses the counter is the length of the
\* current run of 403 answers, and the call is given up for 403 only when a run
\* reaches max_403_attempts: the total number of 403s in the call is not limited.
C22_BudgetCountsConsecutive403 ==
    /\ (IsData(lastHandled.resp) /\ lastHandled.resp.batch /= <<>>) => consecutive_403 = 0
    /\ pc \in {"loop", "request"} => consecutive_403 = run403
    /\ exitReason = "403" => run403 = max_403_attempts
    /\ (pc = "returned" /\ exitReason \in {"short", "empty"}) => run403 = 0

\* more than max_403_attempts 403s in all, in runs separated by full pages, and
\* the window is fetched to its last (short) page
C22_Witness ==
    /\ total403 > max_403_attempts
    /\ pc = "returned" /\ exitReason = "short"
    /\ Len(events) = WindowEvents /\ events = received

\* a step that handles a 403 answer or a failed connection attempt
C24_RetryStep ==
    \/ pc = "response" /\ resp.status = 403 /\ pc' /= "response"
    \/ pc = "request" /\ attempt' = attempt + 1

C24_Paging ==
    /\ pc \in {"loop", "request", "response", "returned"} => offset = Len(events)
    /\ lastHandled.resp.status = 403 =>
          offset = lastHandled.offset /\ events = lastHandled.events
    /\ req /= NoRequest => \A c \in offset_ceiling : req.offset < c

\* C24: throughout the paging loop the offset is the number of events
\* accumulated; a 403 retry or a connection retry changes neither the offset nor
\* the events; with a ceiling, every request sent has an offset below it.
C24_OffsetTracksEvents ==
    [](C24_Paging) /\ [][C24_RetryStep => offset' = offset /\ events' = events]_vars

\* a call with a ceiling that was retried after a 403 and after a connection
\* error and stopped at the ceiling
C24_Witness ==
    /\ pc = "returned" /\ exitReason = "ceiling"
    /\ total403 > 0 /\ connHist.fails > 0
    /\ offset = OffsetCeiling /\ Len(events) = OffsetCeiling

\* C21 (as claimed): no failure during a window fetch is fatal: whatever the
\* server answers, fetch_activity_window does not raise, and the token it holds
\* is the one issued last, so a failed reauthentication leaves it as it was.
C21_WindowFetchNeverRaises ==
    /\ pc /= "raised"
    /\ pc \in {"loop", "request", "response", "returned"} => token = issued

\* C25 (as claimed): a call with a finite offset_ceiling always returns: it
\* stops only by returning, a page request sees at most 4 consecutive 403
\* retries and at most max_retries_conn connection attempts, a non-empty page
\* moves the offset forward, and no request is made at or above the ceiling.
C25_CeilingCallReturns ==
    offset_ceiling /= {} =>
        /\ (~ENABLED NextWindow) => pc = "returned"
        /\ pc \in {"loop", "request", "response"} => consecutive_403 < max_403_attempts
        /\ connHist.tries <= max_retries_conn
        /\ (IsData(lastHandled.resp) /\ lastHandled.resp.batch /= <<>>) =>
              offset > lastHandled.offset
        /\ \A c \in offset_ceiling : offset <= c + limit - 1

(***************************************************************************)
(* SpecDup: one call of fetch_activity_window against a server that may    *)
(* send events again.                                                      *)
(***************************************************************************)
InitDup ==
    /\ now = 0
    /\ rl \in {NoLimiter, RateLimiter(MaxMaxReq, MaxPerSec, now)}
    /\ LimiterHistoryInit
    /\ server = "dup" /\ store = <<>> /\ served = 0
    /\ eventsLeft = DupEvents /\ faultsLeft = DupFaults
    /\ issued = 0 /\ utc_shift = 0
    /\ WindowIdle /\ HourIdle /\ MainIdle

SpecDup == InitDup /\ [][NextWindow]_vars

\* C18: fetch_activity_window neither filters, reorders nor deduplicates: the
\* list it holds and returns is the concatenation, in request order, of the
\* data batches of the 200 answers it received during the call
C18_EventsAreTheBatchesReceived ==
    /\ pc \in {"loop", "request", "returned", "raised"} => events = received
    /\ pc = "response" => events \o resp.batch = received

\* a returned list that holds an event twice, as the server sent it
C18_Witness ==
    /\ pc = "returned" /\ Len(events) > Limit
    /\ \E i, j \in DOMAIN events : i < j /\ events[i] = events[j]

(***************************************************************************)
(* fetch_hour_with_minute_fallback                                         *)
(***************************************************************************)
MsPerHour == 3600000

MsPerMinute == 60000

MinutesPerHour == 60

\* line 313: hour_start_dt + timedelta(hours=1) - timedelta(milliseconds=1)
hour_end_dt(hs) == hs + MsPerHour - 1

\* line 335: hour_start_dt + timedelta(minutes=k)
minute_start(hs, k) == hs + k * MsPerMinute

\* line 336: minute_start + timedelta(minutes=1) - timedelta(milliseconds=1)
minute_end(ms) == ms + MsPerMinute - 1

\* lines 337-338
m_from(hs, k) == dt_to_epoch_millis(minute_start(hs, k))
m_to(hs, k) == dt_to_epoch_millis(minute_end(minute_start(hs, k)))

\* lines 334-347: the fetch of minute k, offset_ceiling = None
FetchMinute(k, tok) ==
    /\ fetch_activity_window(tok, m_from(hour_start_dt, k), m_to(hour_start_dt, k),
                             limit, NoInt, FALSE)
    /\ log' = {Log("Minute", {<<fmt_dt(minute_start(hour_start_dt, k)),
                                 fmt_dt(minute_end(minute_start(hour_start_dt, k)))>>}, {})}
    /\ windows' = Append(windows, [from |-> m_from(hour_start_dt, k),
                                   to |-> m_to(hour_start_dt, k), minute |-> {k},
                                   ceiling |-> NoInt])

\* lines 313-324: the whole hour is tried first
HourFetch ==
    /\ hpc = "start"
    /\ fetch_activity_window(h_token, dt_to_epoch_millis(hour_start_dt),
                             dt_to_epoch_millis(hour_end_dt(hour_start_dt)),
                             limit, hour_ceiling, TRUE)
    /\ log' = {Log("Hourly", {<<fmt_dt(hour_start_dt), fmt_dt(hour_end_dt(hour_start_dt))>>}, {})}
    /\ windows' = Append(windows, [from |-> dt_to_epoch_millis(hour_start_dt),
                                   to |-> dt_to_epoch_millis(hour_end_dt(hour_start_dt)),
                                   minute |-> {}, ceiling |-> hour_ceiling])
    /\ hpc' = "WHOLE_HOUR"
    /\ hourHist' = NoHourHist
    /\ UNCHANGED <<rlVars, srvVars, gets>>
    /\ UNCHANGED <<hour_start_dt, hour_ceiling, m, collected, result, h_token, direct>>
    /\ UNCHANGED mainVars

\* lines 320 and 343, mutated: the token a call returns is dropped
returned_token_dropped == h_token

\* lines 320 and 343: hour_events, need_minute_fallback, token = fetch_activity_window(...)
returned_token == token

\* line 331, mutated: the fallback starts from the events of the hour attempt
collected_start_hour == events

\* line 331: collected = [] when the fallback starts
collected_start == <<>>

\* lines 320-347: the hour call returned; done, or the fallback starts with minute 0
HourReturned ==
    /\ hpc = "WHOLE_HOUR" /\ pc = "returned"
    /\ h_token' = returned_token
    /\ IF ~need_minute_fallback
       THEN /\ result' = events
            /\ hpc' = "DONE"
            /\ pc' = "idle"
            /\ log' = log \cup {Log("Hour OK", {}, {Len(events)})}
            /\ UNCHANGED <<fwArgs, fwLocals, fwHist, m, collected, windows, hourHist>>
       ELSE /\ collected' = collected_start
            /\ m' = 0
            /\ FetchMinute(0, h_token')
            /\ hpc' = "MINUTE_FALLBACK"
            /\ hourHist' = [NoHourHist EXCEPT !.hourServed = served, !.minuteServed = served]
            /\ UNCHANGED <<gets, result>>
    /\ UNCHANGED <<rlVars, srvVars, hour_start_dt, hour_ceiling, direct>>
    /\ UNCHANGED mainVars

\* line 348, mutated: the minute's events are put in front
collect_front(list, batch) == batch \o list

\* line 348: collected.extend(minute_events)
collect(list, batch) == list \o batch

\* line 334, mutated: one minute more
more_minutes_le(k) == k <= MinutesPerHour

\* line 334: k is in range(60)
more_minutes(k) == k < MinutesPerHour

\* lines 343-355: a minute call returned; next minute, or done
MinuteReturned ==
    /\ hpc = "MINUTE_FALLBACK" /\ pc = "returned"
    /\ h_token' = returned_token
    /\ collected' = collect(collected, events)
    /\ hourHist' = [hourHist EXCEPT !.minuteServed = served,
                                    !.minuteAsked = @ \/ need_minute_fallback,
                                    !.minutesWithEvents = @ + (IF events = <<>> THEN 0 ELSE 1)]
    /\ IF more_minutes(m + 1)
       THEN /\ m' = m + 1
            /\ FetchMinute(m + 1, h_token')
            /\ UNCHANGED <<gets, result, hpc>>
       ELSE /\ result' = collected'
            /\ hpc' = "DONE"
            /\ pc' = "idle"
            /\ log' = log \cup {Log("events", {}, {Len(events)}),
                                 Log("Fallback minute total", {<<fmt_dt(hour_start_dt)>>},
                                     {Len(collected')})}
            /\ UNCHANGED <<fwArgs, fwLocals, fwHist, m, windows>>
    /\ UNCHANGED <<rlVars, srvVars, hour_start_dt, hour_ceiling, direct>>
    /\ UNCHANGED mainVars

\* an exception raised in fetch_activity_window leaves fetch_hour_with_minute_fallback
Propagate ==
    /\ hpc \in {"WHOLE_HOUR", "MINUTE_FALLBACK"} /\ pc = "raised"
    /\ hpc' = "RAISED"
    /\ pc' = "idle"
    /\ UNCHANGED <<rlVars, srvVars, fwArgs, fwLocals, fwHist>>
    /\ UNCHANGED <<hour_start_dt, hour_ceiling, m, collected, result, windows, direct>>
    /\ UNCHANGED <<h_token, hourHist, log>>
    /\ UNCHANGED mainVars

(***************************************************************************)
(* Spec: one call of fetch_hour_with_minute_fallback against an            *)
(* arbitrary server.                                                       *)
(***************************************************************************)
\* the local-to-epoch shifts considered: UTC and UTC-3
Shifts == {0, 3 * 3600}

HourArgs ==
    /\ hpc = "start"
    /\ hour_start_dt \in { h * MsPerHour : h \in 0..MaxHour }
    /\ m = 0 /\ collected = <<>> /\ result = <<>> /\ windows = <<>>
    /\ h_token = 0 /\ hourHist = NoHourHist
    /\ pc = "idle"
    /\ from_ts = 0 /\ to_ts = 0 /\ limit = Limit /\ offset_ceiling = NoInt /\ verbose = FALSE
    /\ log = {}
    /\ token = 0 /\ offset = 0 /\ events = <<>> /\ need_minute_fallback = FALSE
    /\ consecutive_403 = 0 /\ attempt = 0 /\ req = NoRequest /\ resp = NoResponse
    /\ exitReason = None /\ gets = 0 /\ startToken = 0 /\ run403 = 0 /\ ended403 = 0 /\ total403 = 0
    /\ first403 = None /\ reauthOK = 0 /\ lastHandled = NoHandled
    /\ connHist = NoConn /\ received = <<>>

Init ==
    /\ now = 0
    /\ rl \in {NoLimiter, RateLimiter(MaxMaxReq, MaxPerSec, now)}
    /\ LimiterHistoryInit
    /\ server = "any" /\ store = <<>> /\ served = 0
    /\ eventsLeft = HourEvents /\ faultsLeft = HourFaults
    /\ issued = 0 /\ utc_shift \in Shifts
    /\ HourArgs /\ MainIdle
    /\ hour_ceiling = {OffsetCeiling}
    /\ direct = NoDirect

Next ==
    \/ HourFetch \/ HourReturned \/ MinuteReturned \/ Propagate
    \/ LoopTop \/ GetResponse \/ GetConnError \/ HandleResponse

Spec == Init /\ [][Next]_vars

\* C2 (as claimed): every window sent to the API ends exactly 1 ms before the next
\* window of the same length starts: to = from + 3600000 - 1 for the hour window,
\* to = from + 60000 - 1 for a minute window.
C2_EndIsStartPlusDurationMinus1ms ==
    pc \in {"request", "response"} =>
        /\ hpc = "WHOLE_HOUR" => req.to = req.from + MsPerHour - 1
        /\ hpc = "MINUTE_FALLBACK" => req.to = req.from + MsPerMinute - 1

\* C3 (as claimed): the minute windows tile the hour window: the first starts at
\* the hour's from_ts, each next one starts 1 ms after the previous one ends, and
\* the last ends at the hour's to_ts.
C3_MinuteWindowsTileHour ==
    \A i \in 2..Len(windows) :
        /\ i = 2 => windows[i].from = windows[1].from
        /\ i > 2 => windows[i].from = windows[i - 1].to + 1
        /\ i = MinutesPerHour + 1 => windows[i].to = windows[1].to
        /\ windows[i].from <= windows[i].to

\* C13: when the whole-hour request is refused with 404 or 400, the call returns
\* the events of the 60 minute calls, minute after minute, each minute's events in
\* the order the server delivered them (events are numbered as they are served)
C13_FallbackConcatenatesMinutes ==
    /\ hpc = "MINUTE_FALLBACK" =>
          /\ windows[Len(windows)].minute = {m}
          /\ collected = Fresh(hourHist.hourServed,
                               hourHist.minuteServed - hourHist.hourServed)
    /\ (hpc = "DONE" /\ Len(windows) > 1) =>
          /\ \A i \in 2..Len(windows) : windows[i].minute = {i - 2}
          /\ result = Fresh(hourHist.hourServed, served - hourHist.hourServed)

\* the hour request was refused before any event was served, every later request
\* was answered with 200, and three events came from at least two minutes
C13_Witness ==
    /\ hpc = "DONE" /\ Len(windows) = MinutesPerHour + 1
    /\ hourHist.hourServed = 0 /\ faultsLeft = 0 /\ ~hourHist.minuteAsked
    /\ result = <<1, 2, 3>> /\ hourHist.minutesWithEvents >= 2

\* the steps of fetch_hour_with_minute_fallback that C14 allows
C14_Step ==
    /\ (hpc' /= hpc /\ hpc' /= "RAISED") =>
          <<hpc, hpc'>> \in { <<"start", "WHOLE_HOUR">>, <<"WHOLE_HOUR", "DONE">>,
                              <<"WHOLE_HOUR", "MINUTE_FALLBACK">>,
                              <<"MINUTE_FALLBACK", "DONE">> }
    /\ (hpc = "WHOLE_HOUR" /\ pc = "returned") =>
          /\ Len(windows) = 1
          /\ windows[1].minute = {} /\ windows[1].ceiling = hour_ceiling
          /\ IF need_minute_fallback
             THEN hpc' = "MINUTE_FALLBACK" /\ Len(windows') = 2
             ELSE hpc' = "DONE" /\ windows' = windows
    /\ (hpc = "MINUTE_FALLBACK" /\ pc = "returned") =>
          IF Len(windows) < MinutesPerHour + 1
          THEN hpc' = "MINUTE_FALLBACK" /\ Len(windows') = Len(windows) + 1
          ELSE hpc' = "DONE" /\ windows' = windows
    /\ windows' /= windows => (hpc = "start" \/ pc = "returned")
    /\ Len(windows') <= MinutesPerHour + 1
    /\ \A i \in 2..Len(windows') :
          windows'[i].minute = {i - 2} /\ windows'[i].ceiling = NoInt

\* C14: a call that returns goes WHOLE_HOUR -> DONE or WHOLE_HOUR ->
\* MINUTE_FALLBACK -> DONE: one fetch_activity_window call with the hour's
\* offset_ceiling when that call returns need_minute_fallback = FALSE, otherwise
\* 61 calls (the hour, then minutes 0..59 with offset_ceiling = None); every
\* minute call is followed by the next one whatever it returned, and no call
\* is made for anything smaller than a minute
C14_OneCallOrSixtyOne == [][C14_Step]_vars

\* the fallback ran to the end although a minute call asked for a fallback
C14_Witness ==
    /\ hpc = "DONE" /\ Len(windows) = MinutesPerHour + 1 /\ hourHist.minuteAsked

\* C15 (as claimed): every call of fetch_hour_with_minute_fallback reaches DONE
\* (returns) whatever the server answers: the call never stops anywhere else.
C15_StopsOnlyWhenDone ==
    (~ENABLED Next) => hpc = "DONE"

\* the ways a window fetch ends without having fetched the window to its end
Degraded == {"conn", "403", "status", "decode"}

\* C20 (as claimed): when a window fetch ends on exhausted connection retries, a
\* persistent 403, an unhandled status or a decode failure, a printed record
\* names the window and gives the number of events collected, and no "Hour OK"
\* record is printed for that window (looked at when the hour fetch has returned).
C20_DegradedWindowIsReported ==
    (hpc = "DONE" /\ exitReason \in Degraded) =>
        /\ \E r \in log : r.window /= {} /\ r.n = {Len(events)}
        /\ \A r \in log : r.msg /= "Hour OK"

\* C23: when the minute fallback runs, the events the whole-hour attempt had
\* accumulated are dropped: what is collected, and what the call returns, holds
\* only events served to the minute calls, each of them once (events are
\* numbered as they are served, the hour attempt got 1..hourServed).
C23_FallbackDropsHourEvents ==
    /\ hpc = "MINUTE_FALLBACK" =>
          /\ \A i \in DOMAIN collected : collected[i] > hourHist.hourServed
          /\ \A i, j \in DOMAIN collected : i /= j => collected[i] /= collected[j]
    /\ (hpc = "DONE" /\ Len(windows) > 1) =>
          /\ \A i \in DOMAIN result :
                result[i] > hourHist.hourServed /\ result[i] <= served
          /\ \A i, j \in DOMAIN result : i /= j => result[i] /= result[j]

\* the hour attempt had a full page when it was refused, and the fallback
\* returned the events of the minutes only
C23_Witness ==
    /\ hpc = "DONE" /\ Len(windows) = MinutesPerHour + 1
    /\ hourHist.hourServed = Limit /\ result = <<3, 4>>

\* the hour attempt ran into the offset ceiling with OffsetCeiling events, which
\* the fallback dropped
C23_WitnessCeiling ==
    /\ hpc = "DONE" /\ Len(windows) = MinutesPerHour + 1
    /\ hourHist.hourServed = OffsetCeiling /\ windows[1].ceiling = {OffsetCeiling}

(***************************************************************************)
(* main: the loops over categories, days and hours                         *)
(***************************************************************************)
HoursPerDay == 24

\* line 703: datetime(ano, mes, current_day, hour, 0, 0), counted from day 1, 00:00
datetime(day, h) == ((day - 1) * HoursPerDay + h) * MsPerHour

\* lines 717-733: the events that carry no excluded identity label
filtered_events_hour(events_hour) == SelectSeq(events_hour, LAMBDA e : e \notin excluded)

\* lines 679-700: the next category: its csv file is opened and a RateLimiter is
\* constructed; after the last one main ends
NextCategory ==
    /\ mpc = "category"
    /\ IF cat < Len(categories_to_process_list)
       THEN /\ cat' = cat + 1
            /\ rl' = RateLimiter(MainMaxRequests, MainPerSeconds, now)
            /\ created' = created + 1
            /\ admitted' = IF created = 0 \/ remaining(rl, now) <= 0 THEN <<>> ELSE admitted
            /\ rlStart' = now /\ rlLate' = FALSE
            /\ idx' = 1 /\ hour' = 0
            /\ mpc' = "hour"
       ELSE /\ mpc' = "done"
            /\ UNCHANGED <<cat, rl, created, admitted, rlStart, rlLate, idx, hour>>
    /\ UNCHANGED <<now, rlCalls, rlWaits, srvVars, pc, fwArgs, fwLocals, fwHist, fhVars, log>>
    /\ UNCHANGED <<main_token, categories_to_process_list, dias_to_process, excluded,
                   saved, written>>

\* lines 701-714: main calls fetch_hour_with_minute_fallback for the hour
MainHourCall ==
    /\ mpc = "hour"
    /\ hour_start_dt' = datetime(dias_to_process[idx], hour)
    /\ hour_ceiling' = {OffsetCeiling}
    /\ h_token' = main_token
    /\ hpc' = "start"
    /\ m' = 0 /\ collected' = <<>> /\ result' = <<>> /\ windows' = <<>>
    /\ hourHist' = NoHourHist
    /\ limit' = Limit
    /\ mpc' = "fetching"
    /\ UNCHANGED <<rlVars, srvVars, pc, from_ts, to_ts, offset_ceiling, verbose>>
    /\ UNCHANGED <<fwLocals, fwHist, direct, log>>
    /\ UNCHANGED <<main_token, categories_to_process_list, dias_to_process, cat, idx, hour,
                   excluded, saved, written, created>>

\* line 702, mutated: the last hour of the day is left out
more_hours_23(h) == h < HoursPerDay - 1

\* line 702: h is in range(24)
more_hours(h) == h < HoursPerDay

\* lines 706-737: the hour fetch returned: the exclusion filter, "Hour OK", the sink,
\* then the next hour, day or category
MainHourReturned ==
    /\ mpc = "fetching" /\ hpc = "DONE"
    /\ main_token' = h_token
    /\ written' = written + Len(filtered_events_hour(result))
    /\ log' = log \cup {Log("Despues de excluir identidades", {},
                             {Len(filtered_events_hour(result))}),
                         Log("Hour OK", {}, {Len(filtered_events_hour(result))})}
    /\ saved' = Append(saved, <<cat, idx, hour>>)
    /\ hpc' = "none"
    /\ IF more_hours(hour + 1)
       THEN hour' = hour + 1 /\ idx' = idx /\ mpc' = "hour"
       ELSE IF idx < Len(dias_to_process)
       THEN hour' = 0 /\ idx' = idx + 1 /\ mpc' = "hour"
       ELSE hour' = hour /\ idx' = idx /\ mpc' = "category"
    /\ UNCHANGED <<rlVars, srvVars, pc, fwArgs, fwLocals, fwHist>>
    /\ UNCHANGED <<hour_start_dt, hour_ceiling, m, collected, result, h_token, hourHist,
                   windows, direct>>
    /\ UNCHANGED <<categories_to_process_list, dias_to_process, cat, excluded, created>>

\* an exception that left fetch_hour_with_minute_fallback ends main
MainRaised ==
    /\ mpc = "fetching" /\ hpc = "RAISED"
    /\ mpc' = "RAISED"
    /\ hpc' = "none"
    /\ UNCHANGED <<rlVars, srvVars, pc, fwArgs, fwLocals, fwHist, log>>
    /\ UNCHANGED <<hour_start_dt, hour_ceiling, m, collected, result, h_token, hourHist,
                   windows, direct>>
    /\ UNCHANGED <<main_token, categories_to_process_list, dias_to_process, cat, idx, hour,
                   excluded, saved, written, created>>

(***************************************************************************)
(* SpecMain: a run of main from the start of the category loop, against an *)
(* arbitrary server.                                                       *)
(***************************************************************************)
InitMain ==
    /\ now = 0
    /\ rl = NoLimiter
    /\ LimiterHistoryInit
    /\ server = "any" /\ store = <<>> /\ served = 0
    /\ eventsLeft = MainEvents /\ faultsLeft = MainFaults
    /\ issued = 0 /\ utc_shift = 0
    /\ WindowIdle /\ HourIdle
    /\ mpc = "category" /\ main_token = 0
    /\ categories_to_process_list \in { [i \in 1..n |-> i] : n \in 1..MaxCategories }
    /\ dias_to_process \in { [i \in 1..n |-> i] : n \in 1..MaxDays }
    /\ cat = 0 /\ idx = 0 /\ hour = 0
    /\ excluded \in SUBSET (1..MainEvents)
    /\ saved = <<>> /\ written = 0 /\ created = 0

NextMain ==
    \/ NextCategory \/ MainHourCall \/ MainHourReturned \/ MainRaised
    \/ HourFetch \/ HourReturned \/ MinuteReturned \/ Propagate
    \/ LoopTop \/ GetResponse \/ GetConnError \/ HandleResponse

SpecMain == InitMain /\ [][NextMain]_vars

C17_OneBudgetForTheRun ==
    /\ Len(admitted) <= MainMaxRequests
    /\ \A i \in 1..Len(admitted) :
          admitted[i] - admitted[1] < MainPerSeconds * TicksPerSec

\* the number of hours that come before hour h of day number d of category
\* number c in the order main takes them
HoursBefore(c, d, h) == ((c - 1) * Len(dias_to_process) + (d - 1)) * HoursPerDay + h

\* C19: main takes the hours 0..23 of each day of each category in increasing
\* order; save_events_function is called once per hour, after that hour's fetch
\* has returned and before the next fetch starts; a window fetch that was
\* aborted does not end the run
C19_HoursInOrderSavedOnce ==
    /\ \A i \in 1..Len(saved) :
          HoursBefore(saved[i][1], saved[i][2], saved[i][3]) = i - 1
    /\ mpc \in {"hour", "fetching"} =>
          /\ hour \in 0..(HoursPerDay - 1)
          /\ Len(saved) = HoursBefore(cat, idx, hour)
    /\ mpc = "fetching" => hour_start_dt = datetime(dias_to_process[idx], hour)
    /\ (mpc = "fetching" /\ hpc = "DONE") => ENABLED MainHourReturned
    /\ mpc = "done" =>
          Len(saved) = Len(categories_to_process_list) * Len(dias_to_process) * HoursPerDay
    /\ mpc = "RAISED" => exitReason = "exception"

\* the fetch of hour 11 of the second category was aborted (unhandled status or
\* undecodable body), its result was saved and main is about to fetch hour 12
C19_Witness ==
    /\ mpc = "hour" /\ cat = 2 /\ hour = 12
    /\ exitReason \in Degraded /\ Len(saved) = HoursPerDay + 12

(***************************************************************************)
(* SpecDet: the hour is fetched twice from a fault-free deterministic      *)
(* server holding a fixed set of events: first directly, then with the     *)
(* fallback forced (offset_ceiling = 0).                                   *)
(***************************************************************************)
\* where in the hour an event may lie, in ms after the start of the hour
Placements == {0, 999, 59000, 59500, 60000, 3599000, 3599500}

Stores(hs) ==
    UNION { [1..k -> { dt_to_epoch_millis(hs) + p : p \in Placements }] : k \in 0..MaxStored }

InitDet ==
    /\ now = 0
    /\ rl \in {NoLimiter, RateLimiter(MaxMaxReq, MaxPerSec, now)}
    /\ LimiterHistoryInit
    /\ utc_shift \in Shifts
    /\ HourArgs /\ MainIdle
    /\ server = "det" /\ store \in Stores(hour_start_dt) /\ served = 0
    /\ eventsLeft = 0 /\ faultsLeft = 0 /\ issued = 0
    /\ hour_ceiling = {OffsetCeiling}
    /\ direct = NoDirect

\* the direct fetch is done: keep its result and fetch the same hour again with
\* the fallback forced
ForceFallback ==
    /\ hpc = "DONE" /\ ~direct.done /\ Len(windows) = 1
    /\ direct' = [done |-> TRUE, events |-> result]
    /\ hpc' = "start"
    /\ hour_ceiling' = {0}
    /\ m' = 0 /\ collected' = <<>> /\ result' = <<>> /\ windows' = <<>>
    /\ UNCHANGED <<rlVars, srvVars, pc, fwArgs, fwLocals, fwHist, hour_start_dt>>
    /\ UNCHANGED <<h_token, hourHist, log>>
    /\ UNCHANGED mainVars

NextDet ==
    \/ HourFetch \/ HourReturned \/ MinuteReturned \/ ForceFallback
    \/ LoopTop \/ GetResponse \/ HandleResponse

SpecDet == InitDet /\ [][NextDet]_vars

Range(q) == { q[i] : i \in DOMAIN q }

\* the multiset of the elements of a sequence
BagOfSeq(q) == [x \in Range(q) |-> Cardinality({ i \in DOMAIN q : q[i] = x })]

\* C1 (as claimed): against the deterministic server the forced minute fallback
\* returns the same multiset of events as the direct whole-hour fetch.
C1_FallbackEqualsDirect ==
    (hpc = "DONE" /\ direct.done) => BagOfSeq(result) = BagOfSeq(direct.events)

\* C12 (as claimed): when the deterministic server holds K < offset_ceiling
\* events in the hour, the direct fetch asks for offsets 0, limit, 2 * limit, ...
\* only, never starts the fallback and returns exactly those K events.
C12_DirectFetchReturnsTheHour ==
    (~direct.done /\ Len(store) < OffsetCeiling) =>
        /\ hpc /= "MINUTE_FALLBACK"
        /\ pc \in {"request", "response"} => req.offset % limit = 0
        /\ hpc = "DONE" =>
              /\ Len(windows) = 1
              /\ Len(result) = Len(store) /\ Range(result) = DOMAIN store

====
